---- MODULE Spec2Model ----
(***************************************************************************)
(* Sleep feasibility engine of elogind (src/shared/sleep-config.c).        *)
(*                                                                         *)
(* The environment is the two kernel pseudo-files /sys/power/state and     *)
(* /sys/power/disk, the CLOCK_BOOTTIME_ALARM oracle and the swap oracle.   *)
(* A query (can_sleep, sleep_state_supported, sleep_mode_supported) runs   *)
(* to completion in one step; the variable `call` then holds its           *)
(* arguments, its C return value (an int: > 0 yes, 0 no, < 0 -errno) and   *)
(* the ordered log of the probes it consulted.                             *)
(*                                                                         *)
(* Words are sequences of pieces: a piece is the character "[" or "]" or a *)
(* non-empty bracket-free run of characters, so that <<"[","platform","]">>*)
(* is the C string "[platform]" and <<"platform">> is "platform".          *)
(* The duration fields of SleepConfig (hibernate_delay_usec,               *)
(* suspend_estimation_usec) are not read by any query and are left out.    *)
(***************************************************************************)
EXTENDS Integers, Sequences, FiniteSets, TLC

VARIABLES sys_power_state, sys_power_disk, clock_boottime_alarm, swap_enough, call

vars == <<sys_power_state, sys_power_disk, clock_boottime_alarm, swap_enough, call>>

env == <<sys_power_state, sys_power_disk, clock_boottime_alarm, swap_enough>>

(* ---------------------------- bounds ----------------------------------- *)

\* longest word list held by /sys/power/state
MaxStateWords == 2

\* longest word list held by /sys/power/disk
MaxModeWords == 1

(* --------------------------- errno values ------------------------------ *)

EIO == 5

ENOMEM == 12

EACCES == 13

ENOSPC == 28

ENOMSG == 42

(* ------------------------- SleepOperation ------------------------------ *)

SLEEP_SUSPEND == "suspend"

SLEEP_HIBERNATE == "hibernate"

SLEEP_HYBRID_SLEEP == "hybrid-sleep"

SLEEP_SUSPEND_THEN_HIBERNATE == "suspend-then-hibernate"

\* the operations that have states[] and modes[] of their own
SLEEP_OPERATION_CONFIG == {SLEEP_SUSPEND, SLEEP_HIBERNATE, SLEEP_HYBRID_SLEEP}

SLEEP_OPERATION == SLEEP_OPERATION_CONFIG \cup {SLEEP_SUSPEND_THEN_HIBERNATE}

(* ------------------------------ words ---------------------------------- *)

W(s) == <<s>>

Bracketed(s) == <<"[", s, "]">>

Range(seq) == {seq[i] : i \in 1..Len(seq)}

SeqsUpTo(S, n) == UNION {[1..k -> S] : k \in 0..n}

\* the words the modelled /sys/power/state may hold
StateWords == {W("mem"), W("disk")}

\* the words the modelled /sys/power/disk may hold
ModeWords == {Bracketed("shutdown"), W("test_resume")}

(* ------------------------- kernel pseudo-files ------------------------- *)
\* access: 0 or -errno of access(path, W_OK); read: 0 or -errno of
\* read_one_line_file; words: the words of the line that tokenize; corrupt:
\* whether the extraction after the last of these words fails.

NotWritable == [access |-> -EACCES, read |-> 0, words |-> <<>>, corrupt |-> FALSE]

ReadFailure == [access |-> 0, read |-> -EIO, words |-> <<>>, corrupt |-> FALSE]

Content(ws, c) == [access |-> 0, read |-> 0, words |-> ws, corrupt |-> c]

KernelFiles(words, n) ==
    {NotWritable, ReadFailure} \cup {Content(ws, c) : ws \in SeqsUpTo(words, n), c \in BOOLEAN}

(* --------------------------- probe log --------------------------------- *)

AccessState == "access /sys/power/state"

ReadState == "read /sys/power/state"

AccessDisk == "access /sys/power/disk"

ReadDisk == "read /sys/power/disk"

ClockSupported == "clock_supported"

EnoughSwap == "enough_swap_for_hibernation"

\* the result of a function: its return value and the probes it consulted
Ret(r, l) == [ret |-> r, log |-> l]

(* -------------------------- library helpers ---------------------------- *)

strv_isempty(l) == l = <<>>

strv_contains(l, s) == \E i \in 1..Len(l) : l[i] = s

\* extract_first_word on the i-th extraction from a file: 1 and the word,
\* 0 at the end of the line, -ENOMEM where the line does not tokenize
extract_first_word(file, i) ==
    IF i <= Len(file.words) THEN 1
    ELSE IF file.corrupt THEN -ENOMEM
    ELSE 0

RECURSIVE string_contains_word_strv_from(_, _, _)
string_contains_word_strv_from(file, i, words) ==
    LET r == extract_first_word(file, i) IN
    IF r < 0 THEN r
    ELSE IF r = 0 THEN 0
    ELSE IF strv_contains(words, file.words[i]) THEN 1
    ELSE string_contains_word_strv_from(file, i + 1, words)

string_contains_word_strv(file, words) == string_contains_word_strv_from(file, 1, words)

(* --------------------------- Capability Probe -------------------------- *)

\* faulty variant: an empty list is taken as supported, as the mode check does
sleep_state_supported_empty_ok(states) ==
    IF strv_isempty(states) THEN Ret(1, <<>>)
    ELSE IF sys_power_state.access < 0 THEN Ret(sys_power_state.access, <<AccessState>>)
    ELSE IF sys_power_state.read < 0 THEN Ret(sys_power_state.read, <<AccessState, ReadState>>)
    ELSE LET r == string_contains_word_strv(sys_power_state, states) IN
         IF r < 0 THEN Ret(r, <<AccessState, ReadState>>)
         ELSE IF r > 0 THEN Ret(1, <<AccessState, ReadState>>)
         ELSE Ret(0, <<AccessState, ReadState>>)

sleep_state_supported(states) ==
    IF strv_isempty(states) THEN Ret(-ENOMSG, <<>>)
    ELSE IF sys_power_state.access < 0 THEN Ret(sys_power_state.access, <<AccessState>>)
    ELSE IF sys_power_state.read < 0 THEN Ret(sys_power_state.read, <<AccessState, ReadState>>)
    ELSE LET r == string_contains_word_strv(sys_power_state, states) IN
         IF r < 0 THEN Ret(r, <<AccessState, ReadState>>)
         ELSE IF r > 0 THEN Ret(1, <<AccessState, ReadState>>)
         ELSE Ret(0, <<AccessState, ReadState>>)

\* faulty variant: a leading "[" and a trailing "]" are removed independently
strip_brackets_either(word) ==
    LET l == Len(word)
        from == IF word[1] = "[" THEN 2 ELSE 1
        to == IF word[l] = "]" THEN l - 1 ELSE l
    IN  SubSeq(word, from, to)

\* lines 173-179: the word with one leading "[" and one trailing "]" removed
\* when it has both
strip_brackets(word) ==
    LET l == Len(word) IN
    IF word[1] = "[" /\ word[l] = "]" THEN SubSeq(word, 2, l - 1) ELSE word

\* the loop of lines 162-185, from the i-th extraction on
RECURSIVE sleep_mode_supported_from(_, _)
sleep_mode_supported_from(i, modes) ==
    LET r == extract_first_word(sys_power_disk, i) IN
    IF r < 0 THEN r
    ELSE IF r = 0 THEN 0
    ELSE IF strv_contains(modes, strip_brackets(sys_power_disk.words[i])) THEN 1
    ELSE sleep_mode_supported_from(i + 1, modes)

\* faulty variant: the empty list is not short-cut
sleep_mode_supported_no_default(modes) ==
    IF sys_power_disk.access < 0 THEN Ret(sys_power_disk.access, <<AccessDisk>>)
    ELSE IF sys_power_disk.read < 0 THEN Ret(sys_power_disk.read, <<AccessDisk, ReadDisk>>)
    ELSE Ret(sleep_mode_supported_from(1, modes), <<AccessDisk, ReadDisk>>)

sleep_mode_supported(modes) ==
    IF strv_isempty(modes) THEN Ret(1, <<>>)
    ELSE IF sys_power_disk.access < 0 THEN Ret(sys_power_disk.access, <<AccessDisk>>)
    ELSE IF sys_power_disk.read < 0 THEN Ret(sys_power_disk.read, <<AccessDisk, ReadDisk>>)
    ELSE Ret(sleep_mode_supported_from(1, modes), <<AccessDisk, ReadDisk>>)

(* ------------------------ Resource preconditions ----------------------- *)

clock_supported == Ret(IF clock_boottime_alarm THEN 1 ELSE 0, <<ClockSupported>>)

enough_swap_for_hibernation == Ret(IF swap_enough THEN 1 ELSE 0, <<EnoughSwap>>)

(* ----------------------- Feasibility Decision Engine ------------------- *)

\* a C int returned through a function whose return type is bool
bool(r) == IF r # 0 THEN 1 ELSE 0

\* faulty variant: the hibernate leg is left out
operations_suspend_only == <<SLEEP_SUSPEND>>

operations == <<SLEEP_SUSPEND, SLEEP_HIBERNATE>>

RECURSIVE can_sleep_internal(_, _, _)

RECURSIVE can_s2h_from(_, _, _)

\* faulty variant: -ENOSPC of a leg is not collapsed with 0
can_s2h_from_enospc_is_error(sleep_config, i, log) ==
    IF i > Len(operations) THEN Ret(bool(1), log)
    ELSE LET c == can_sleep_internal(sleep_config, operations[i], FALSE)
             l == log \o c.log
         IN  IF c.ret = 0 THEN Ret(bool(0), l)
             ELSE IF c.ret < 0 THEN Ret(bool(c.ret), l)
             ELSE can_s2h_from(sleep_config, i + 1, l)

\* faulty variant: the legs enforce their own allow flags
can_s2h_from_enforcing(sleep_config, i, log) ==
    IF i > Len(operations) THEN Ret(bool(1), log)
    ELSE LET c == can_sleep_internal(sleep_config, operations[i], TRUE)
             l == log \o c.log
         IN  IF c.ret \in {0, -ENOSPC} THEN Ret(bool(0), l)
             ELSE IF c.ret < 0 THEN Ret(bool(c.ret), l)
             ELSE can_s2h_from(sleep_config, i + 1, l)

\* the loop of lines 210-218 from operations[i] on; log is what was consulted so far
can_s2h_from(sleep_config, i, log) ==
    IF i > Len(operations) THEN Ret(bool(1), log)
    ELSE LET c == can_sleep_internal(sleep_config, operations[i], FALSE)
             l == log \o c.log
         IN  IF c.ret \in {0, -ENOSPC} THEN Ret(bool(0), l)
             ELSE IF c.ret < 0 THEN Ret(bool(c.ret), l)
             ELSE can_s2h_from(sleep_config, i + 1, l)

\* faulty variant: the wake alarm is not required
can_s2h_no_alarm(sleep_config) ==
    LET k == clock_supported IN
    can_s2h_from(sleep_config, 1, k.log)

can_s2h(sleep_config) ==
    LET k == clock_supported IN
    IF k.ret = 0 THEN Ret(bool(0), k.log)
    ELSE can_s2h_from(sleep_config, 1, k.log)

\* faulty variant: an error of the state or mode check is returned as it is
can_sleep_internal_propagating(sleep_config, operation, check_allowed) ==
    IF check_allowed /\ ~sleep_config.allow[operation] THEN Ret(0, <<>>)
    ELSE IF operation = SLEEP_SUSPEND_THEN_HIBERNATE THEN can_s2h(sleep_config)
    ELSE LET s == sleep_state_supported(sleep_config.states[operation]) IN
         IF s.ret <= 0 THEN Ret(s.ret, s.log)
         ELSE LET m == sleep_mode_supported(sleep_config.modes[operation])
                  l == s.log \o m.log
              IN  IF m.ret <= 0 THEN Ret(m.ret, l)
                  ELSE IF operation = SLEEP_SUSPEND THEN Ret(1, l)
                  ELSE LET w == enough_swap_for_hibernation IN
                       IF w.ret = 0 THEN Ret(-ENOSPC, l \o w.log)
                       ELSE Ret(1, l \o w.log)

\* faulty variant: the mode check is made whatever the state check returned
can_sleep_internal_eager(sleep_config, operation, check_allowed) ==
    IF check_allowed /\ ~sleep_config.allow[operation] THEN Ret(0, <<>>)
    ELSE IF operation = SLEEP_SUSPEND_THEN_HIBERNATE THEN can_s2h(sleep_config)
    ELSE LET s == sleep_state_supported(sleep_config.states[operation])
             m == sleep_mode_supported(sleep_config.modes[operation])
             l == s.log \o m.log
         IN  IF s.ret <= 0 \/ m.ret <= 0 THEN Ret(0, l)
             ELSE IF operation = SLEEP_SUSPEND THEN Ret(1, l)
             ELSE LET w == enough_swap_for_hibernation IN
                  IF w.ret = 0 THEN Ret(-ENOSPC, l \o w.log)
                  ELSE Ret(1, l \o w.log)

\* faulty variant: swap is required of every primitive operation
can_sleep_internal_swap_always(sleep_config, operation, check_allowed) ==
    IF check_allowed /\ ~sleep_config.allow[operation] THEN Ret(0, <<>>)
    ELSE IF operation = SLEEP_SUSPEND_THEN_HIBERNATE THEN can_s2h(sleep_config)
    ELSE LET s == sleep_state_supported(sleep_config.states[operation]) IN
         IF s.ret <= 0 THEN Ret(0, s.log)
         ELSE LET m == sleep_mode_supported(sleep_config.modes[operation])
                  l == s.log \o m.log
              IN  IF m.ret <= 0 THEN Ret(0, l)
                  ELSE LET w == enough_swap_for_hibernation IN
                       IF w.ret = 0 THEN Ret(-ENOSPC, l \o w.log)
                       ELSE Ret(1, l \o w.log)

can_sleep_internal(sleep_config, operation, check_allowed) ==
    IF check_allowed /\ ~sleep_config.allow[operation] THEN Ret(0, <<>>)
    ELSE IF operation = SLEEP_SUSPEND_THEN_HIBERNATE THEN can_s2h(sleep_config)
    ELSE LET s == sleep_state_supported(sleep_config.states[operation]) IN
         IF s.ret <= 0 THEN Ret(0, s.log)
         ELSE LET m == sleep_mode_supported(sleep_config.modes[operation])
                  l == s.log \o m.log
              IN  IF m.ret <= 0 THEN Ret(0, l)
                  ELSE IF operation = SLEEP_SUSPEND THEN Ret(1, l)
                  ELSE LET w == enough_swap_for_hibernation IN
                       IF w.ret = 0 THEN Ret(-ENOSPC, l \o w.log)
                       ELSE Ret(1, l \o w.log)

(* ----------------------- Sleep Configuration Model -------------------- *)

\* a tristate as config_parse_tristate leaves it: -1 unset, 0 false, 1 true
Tristate == {-1, 0, 1}

ListKeys ==
    {"SuspendMode", "SuspendState", "HibernateMode", "HibernateState",
     "HybridSleepMode", "HybridSleepState"}

\* the value an administrator gives a list key in the modelled sleep.conf
CustomList(key) ==
    CASE key = "SuspendMode"      -> <<W("shutdown")>>
      [] key = "SuspendState"     -> <<W("freeze"), W("disk")>>
      [] key = "HibernateMode"    -> <<W("platform"), W("test_resume")>>
      [] key = "HibernateState"   -> <<W("mem")>>

\* the list keys the modelled administrator may set
CustomKeys == {"SuspendMode", "SuspendState", "HibernateMode", "HibernateState"}

\* the list keys of sleep.conf: none set (<<>> is the NULL strv), or one set
ConfLists ==
    {[k \in ListKeys |-> <<>>]}
        \cup {[k \in ListKeys |-> IF k = set THEN CustomList(k) ELSE <<>>] : set \in CustomKeys}

\* what config_parse_config_file reads from sleep.conf
SleepConf ==
    {[AllowSuspend |-> s, AllowHibernation |-> h, AllowSuspendThenHibernate |-> sh,
      AllowHybridSleep |-> hy, lists |-> l] :
        s \in Tristate, h \in Tristate, sh \in Tristate, hy \in Tristate, l \in ConfLists}

\* no SleepConfig: parse_sleep_config failed
NULL == "NULL"

\* faulty variant: the derived defaults look at AllowSuspend only
parse_sleep_config_suspend_only(conf, oom) ==
    LET allow_suspend == conf.AllowSuspend
        allow_hibernate == conf.AllowHibernation
        allow_s2h == conf.AllowSuspendThenHibernate
        allow_hybrid_sleep == conf.AllowHybridSleep
        or_default(l, d) == IF l = <<>> THEN d ELSE l
        sc == [allow |->
                 [o \in SLEEP_OPERATION |->
                    CASE o = SLEEP_SUSPEND -> allow_suspend # 0
                      [] o = SLEEP_HIBERNATE -> allow_hibernate # 0
                      [] o = SLEEP_HYBRID_SLEEP ->
                           IF allow_hybrid_sleep >= 0 THEN allow_hybrid_sleep # 0
                           ELSE allow_suspend # 0
                      [] o = SLEEP_SUSPEND_THEN_HIBERNATE ->
                           IF allow_s2h >= 0 THEN allow_s2h # 0
                           ELSE allow_suspend # 0],
               states |->
                 [o \in SLEEP_OPERATION_CONFIG |->
                    CASE o = SLEEP_SUSPEND ->
                           or_default(conf.lists["SuspendState"],
                                      <<W("mem"), W("standby"), W("freeze")>>)
                      [] o = SLEEP_HIBERNATE ->
                           or_default(conf.lists["HibernateState"], <<W("disk")>>)
                      [] o = SLEEP_HYBRID_SLEEP ->
                           or_default(conf.lists["HybridSleepState"], <<W("disk")>>)],
               modes |->
                 [o \in SLEEP_OPERATION_CONFIG |->
                    CASE o = SLEEP_SUSPEND -> conf.lists["SuspendMode"]
                      [] o = SLEEP_HIBERNATE ->
                           or_default(conf.lists["HibernateMode"],
                                      <<W("platform"), W("shutdown")>>)
                      [] o = SLEEP_HYBRID_SLEEP ->
                           or_default(conf.lists["HybridSleepMode"],
                                      <<W("suspend"), W("platform"), W("shutdown")>>)]]
    IN  IF oom THEN [r |-> -ENOMEM, sc |-> NULL] ELSE [r |-> 0, sc |-> sc]

\* oom: whether an allocation of parse_sleep_config fails
parse_sleep_config(conf, oom) ==
    LET allow_suspend == conf.AllowSuspend
        allow_hibernate == conf.AllowHibernation
        allow_s2h == conf.AllowSuspendThenHibernate
        allow_hybrid_sleep == conf.AllowHybridSleep
        or_default(l, d) == IF l = <<>> THEN d ELSE l
        sc == [allow |->
                 [o \in SLEEP_OPERATION |->
                    CASE o = SLEEP_SUSPEND -> allow_suspend # 0
                      [] o = SLEEP_HIBERNATE -> allow_hibernate # 0
                      [] o = SLEEP_HYBRID_SLEEP ->
                           IF allow_hybrid_sleep >= 0 THEN allow_hybrid_sleep # 0
                           ELSE (allow_suspend # 0 /\ allow_hibernate # 0)
                      [] o = SLEEP_SUSPEND_THEN_HIBERNATE ->
                           IF allow_s2h >= 0 THEN allow_s2h # 0
                           ELSE (allow_suspend # 0 /\ allow_hibernate # 0)],
               states |->
                 [o \in SLEEP_OPERATION_CONFIG |->
                    CASE o = SLEEP_SUSPEND ->
                           or_default(conf.lists["SuspendState"],
                                      <<W("mem"), W("standby"), W("freeze")>>)
                      [] o = SLEEP_HIBERNATE ->
                           or_default(conf.lists["HibernateState"], <<W("disk")>>)
                      [] o = SLEEP_HYBRID_SLEEP ->
                           or_default(conf.lists["HybridSleepState"], <<W("disk")>>)],
               modes |->
                 [o \in SLEEP_OPERATION_CONFIG |->
                    CASE o = SLEEP_SUSPEND -> conf.lists["SuspendMode"]
                      [] o = SLEEP_HIBERNATE ->
                           or_default(conf.lists["HibernateMode"],
                                      <<W("platform"), W("shutdown")>>)
                      [] o = SLEEP_HYBRID_SLEEP ->
                           or_default(conf.lists["HybridSleepMode"],
                                      <<W("suspend"), W("platform"), W("shutdown")>>)]]
    IN  IF oom THEN [r |-> -ENOMEM, sc |-> NULL] ELSE [r |-> 0, sc |-> sc]

(* ------------------------------ Public Query --------------------------- *)

\* faulty variant: the allow flag of the queried operation is not enforced
can_sleep_not_enforcing(conf, oom, operation) ==
    LET p == parse_sleep_config(conf, oom) IN
    IF p.r < 0 THEN [ret |-> p.r, log |-> <<>>, parse |-> p.r, sleep_config |-> NULL]
    ELSE LET c == can_sleep_internal(p.sc, operation, FALSE) IN
         [ret |-> c.ret, log |-> c.log, parse |-> p.r, sleep_config |-> p.sc]

\* the result of can_sleep, with what parse_sleep_config returned and loaded
can_sleep(conf, oom, operation) ==
    LET p == parse_sleep_config(conf, oom) IN
    IF p.r < 0 THEN [ret |-> p.r, log |-> <<>>, parse |-> p.r, sleep_config |-> NULL]
    ELSE LET c == can_sleep_internal(p.sc, operation, TRUE) IN
         [ret |-> c.ret, log |-> c.log, parse |-> p.r, sleep_config |-> p.sc]

(* ------------------------------ the queries ---------------------------- *)

\* no query has returned and not been consumed
NoCall == [fn |-> "none"]

\* the candidate lists a caller hands to the capability probe
CandidateLists ==
    {<<>>, <<W("mem"), W("standby"), W("freeze")>>, <<W("disk")>>,
     <<W("platform"), W("shutdown")>>, <<W("test_resume")>>}

Init ==
    /\ sys_power_state \in KernelFiles(StateWords, MaxStateWords)
    /\ sys_power_disk \in KernelFiles(ModeWords, MaxModeWords)
    /\ clock_boottime_alarm \in BOOLEAN
    /\ swap_enough \in BOOLEAN
    /\ call = NoCall

CanSleep ==
    /\ call = NoCall
    /\ \E conf \in SleepConf, oom \in BOOLEAN, operation \in SLEEP_OPERATION :
          LET c == can_sleep(conf, oom, operation) IN
          call' = [fn |-> "can_sleep", operation |-> operation, parse |-> c.parse,
                   sleep_config |-> c.sleep_config, ret |-> c.ret, log |-> c.log]
    /\ UNCHANGED env

SleepStateSupported ==
    /\ call = NoCall
    /\ \E states \in CandidateLists :
          LET c == sleep_state_supported(states) IN
          call' = [fn |-> "sleep_state_supported", arg |-> states, ret |-> c.ret, log |-> c.log]
    /\ UNCHANGED env

SleepModeSupported ==
    /\ call = NoCall
    /\ \E modes \in CandidateLists :
          LET c == sleep_mode_supported(modes) IN
          call' = [fn |-> "sleep_mode_supported", arg |-> modes, ret |-> c.ret, log |-> c.log]
    /\ UNCHANGED env

\* the SleepConfig values can_sleep_internal is applied to on its own: the
\* loaded ones, and those with the states of one operation left empty
AllowMaps ==
    {[o \in SLEEP_OPERATION |-> TRUE]}
        \cup {[o \in SLEEP_OPERATION |-> o # x] : x \in SLEEP_OPERATION}

LoadedLists == {parse_sleep_config(conf, FALSE).sc : conf \in {c \in SleepConf :
                    /\ c.AllowSuspend = -1 /\ c.AllowHibernation = -1
                    /\ c.AllowSuspendThenHibernate = -1 /\ c.AllowHybridSleep = -1}}

SleepConfigs ==
    LET default == parse_sleep_config(
                       [AllowSuspend |-> -1, AllowHibernation |-> -1,
                        AllowSuspendThenHibernate |-> -1, AllowHybridSleep |-> -1,
                        lists |-> [k \in ListKeys |-> <<>>]], FALSE).sc
        lists == LoadedLists
                   \cup {[default EXCEPT !.states[o] = <<>>] : o \in SLEEP_OPERATION_CONFIG}
    IN  {[l EXCEPT !.allow = a] : l \in lists, a \in AllowMaps}

\* can_sleep_internal applied to a SleepConfig of any content
CanSleepInternal ==
    /\ call = NoCall
    /\ \E sleep_config \in SleepConfigs, operation \in SLEEP_OPERATION, check_allowed \in BOOLEAN :
          LET c == can_sleep_internal(sleep_config, operation, check_allowed) IN
          call' = [fn |-> "can_sleep_internal", operation |-> operation,
                   check_allowed |-> check_allowed,
                   sleep_config |-> sleep_config, ret |-> c.ret, log |-> c.log]
    /\ UNCHANGED env

\* the caller takes the result; the SleepConfig of can_sleep is freed
Return ==
    /\ call # NoCall
    /\ call' = NoCall
    /\ UNCHANGED env

Next == CanSleep \/ SleepStateSupported \/ SleepModeSupported \/ Return

Spec == Init /\ [][Next]_vars

\* the mode check against lines of /sys/power/disk whose words carry a
\* bracket at both ends, at one end or at none
MaxBracketWords == 2

BracketWords ==
    {W("platform"), Bracketed("platform"), <<"[", "platform">>, <<"platform", "]">>,
     <<"[", "]">>, <<"[">>, W("test_resume")}

InitMode ==
    /\ sys_power_state \in KernelFiles(StateWords, MaxStateWords)
    /\ sys_power_disk \in KernelFiles(BracketWords, MaxBracketWords)
    /\ clock_boottime_alarm \in BOOLEAN
    /\ swap_enough \in BOOLEAN
    /\ call = NoCall

NextMode == SleepModeSupported \/ Return

SpecMode == InitMode /\ [][NextMode]_vars

\* parse_sleep_config called on its own; it reads no kernel file, so the
\* lines of the two files are left empty
ParseSleepConfig ==
    /\ call = NoCall
    /\ \E conf \in SleepConf, oom \in BOOLEAN :
          LET p == parse_sleep_config(conf, oom) IN
          call' = [fn |-> "parse_sleep_config", conf |-> conf, r |-> p.r, ret |-> p.sc]
    /\ UNCHANGED env

InitConfig ==
    /\ sys_power_state \in KernelFiles(StateWords, 0)
    /\ sys_power_disk \in KernelFiles(ModeWords, 0)
    /\ clock_boottime_alarm \in BOOLEAN
    /\ swap_enough \in BOOLEAN
    /\ call = NoCall

NextConfig == ParseSleepConfig \/ Return

SpecConfig == InitConfig /\ [][NextConfig]_vars

(* --------------------------- concurrent queries ----------------------- *)
\* can_sleep run by several threads, one kernel read at a time. `call` is
\* here a function from the threads to their frames: pc is the read the
\* thread makes next, cur the primitive operation being checked, leg its
\* index in `operations` (0 outside can_s2h). conf, oom and fresh are
\* history: what sleep.conf held when it was parsed, whether the allocation
\* failed, and whether the environment is still as it was when the call began.

Threads == {"t1", "t2"}

\* the contents of sleep.conf met by the threads: nothing set, or Suspend
\* disallowed and SuspendThenHibernate allowed
ThreadConfs ==
    {c \in SleepConf :
        /\ c.AllowSuspend \in {-1, 0}
        /\ c.AllowHibernation = -1
        /\ c.AllowSuspendThenHibernate = (IF c.AllowSuspend = 0 THEN 1 ELSE -1)
        /\ c.AllowHybridSleep = -1
        /\ c.lists = [k \in ListKeys |-> <<>>]}

\* the states of the kernel files met by the threads
ThreadStateFiles ==
    {NotWritable, ReadFailure, Content(<<W("mem"), W("disk")>>, FALSE),
     Content(<<W("mem")>>, TRUE), Content(<<W("disk")>>, FALSE)}

ThreadModeFiles ==
    {NotWritable, Content(<<Bracketed("shutdown")>>, FALSE), Content(<<W("test_resume")>>, TRUE)}

Idle == [pc |-> "idle"]

Done(f, r) == [f EXCEPT !.pc = "done", !.ret = r]

RECURSIVE FinishPrimitive(_, _)

\* can_sleep_internal entered for the primitive operation op, up to its first read
BeginPrimitive(f, op) ==
    LET g == [f EXCEPT !.cur = op] IN
    IF strv_isempty(g.sleep_config.states[op]) THEN FinishPrimitive(g, 0)
    ELSE [g EXCEPT !.pc = "access_state"]

\* can_sleep_internal returns r for the primitive operation f.cur: to the caller
\* of can_sleep, or into the loop of can_s2h
FinishPrimitive(f, r) ==
    IF f.leg = 0 THEN Done(f, r)
    ELSE IF r \in {0, -ENOSPC} THEN Done(f, bool(0))
    ELSE IF r < 0 THEN Done(f, bool(r))
    ELSE IF f.leg + 1 > Len(operations) THEN Done(f, bool(1))
    ELSE BeginPrimitive([f EXCEPT !.leg = f.leg + 1], operations[f.leg + 1])

\* both checks passed
AfterMode(f) ==
    IF f.cur = SLEEP_SUSPEND THEN FinishPrimitive(f, 1)
    ELSE [f EXCEPT !.pc = "swap"]

\* the state check passed
AfterState(f) ==
    IF strv_isempty(f.sleep_config.modes[f.cur]) THEN AfterMode(f)
    ELSE [f EXCEPT !.pc = "access_disk"]

\* faulty variant: the configuration loaded by a call still running is reused
LoadConfigCached(t, conf, oom) ==
    IF \E u \in Threads \ {t} : call[u] # Idle /\ ~call[u].oom
    THEN [r |-> 0,
          sc |-> call[CHOOSE u \in Threads \ {t} : call[u] # Idle /\ ~call[u].oom].sleep_config]
    ELSE parse_sleep_config(conf, oom)

\* the configuration a call works on: the one it has parsed itself
LoadConfig(t, conf, oom) == parse_sleep_config(conf, oom)

\* can_sleep is called: sleep.conf is parsed and the allow flag checked
StartCanSleep(t) ==
    /\ call[t] = Idle
    /\ \E conf \in ThreadConfs, oom \in BOOLEAN, operation \in SLEEP_OPERATION :
          LET p == LoadConfig(t, conf, oom)
              f == [pc |-> "parse", operation |-> operation, conf |-> conf, oom |-> oom,
                    sleep_config |-> p.sc, cur |-> operation, leg |-> 0, ret |-> 0,
                    fresh |-> TRUE]
          IN  call' = [call EXCEPT ![t] =
                  IF p.r < 0 THEN Done(f, p.r)
                  ELSE IF ~p.sc.allow[operation] THEN Done(f, 0)
                  ELSE IF operation = SLEEP_SUSPEND_THEN_HIBERNATE THEN [f EXCEPT !.pc = "clock"]
                  ELSE BeginPrimitive(f, operation)]
    /\ UNCHANGED env

StepClock(t) ==
    /\ call[t].pc = "clock"
    /\ call' = [call EXCEPT ![t] =
          IF clock_supported.ret = 0 THEN Done(@, bool(0))
          ELSE BeginPrimitive([@ EXCEPT !.leg = 1], operations[1])]
    /\ UNCHANGED env

StepAccessState(t) ==
    /\ call[t].pc = "access_state"
    /\ call' = [call EXCEPT ![t] =
          IF sys_power_state.access < 0 THEN FinishPrimitive(@, 0)
          ELSE [@ EXCEPT !.pc = "read_state"]]
    /\ UNCHANGED env

StepReadState(t) ==
    /\ call[t].pc = "read_state"
    /\ call' = [call EXCEPT ![t] =
          IF sys_power_state.read < 0 THEN FinishPrimitive(@, 0)
          ELSE IF string_contains_word_strv(sys_power_state, @.sleep_config.states[@.cur]) <= 0
               THEN FinishPrimitive(@, 0)
          ELSE AfterState(@)]
    /\ UNCHANGED env

StepAccessDisk(t) ==
    /\ call[t].pc = "access_disk"
    /\ call' = [call EXCEPT ![t] =
          IF sys_power_disk.access < 0 THEN FinishPrimitive(@, 0)
          ELSE [@ EXCEPT !.pc = "read_disk"]]
    /\ UNCHANGED env

StepReadDisk(t) ==
    /\ call[t].pc = "read_disk"
    /\ call' = [call EXCEPT ![t] =
          IF sys_power_disk.read < 0 THEN FinishPrimitive(@, 0)
          ELSE IF sleep_mode_supported_from(1, @.sleep_config.modes[@.cur]) <= 0
               THEN FinishPrimitive(@, 0)
          ELSE AfterMode(@)]
    /\ UNCHANGED env

StepSwap(t) ==
    /\ call[t].pc = "swap"
    /\ call' = [call EXCEPT ![t] =
          IF enough_swap_for_hibernation.ret = 0 THEN FinishPrimitive(@, -ENOSPC)
          ELSE FinishPrimitive(@, 1)]
    /\ UNCHANGED env

\* can_sleep returns to its caller; its SleepConfig is freed
ThreadReturn(t) ==
    /\ call[t].pc = "done"
    /\ call' = [call EXCEPT ![t] = Idle]
    /\ UNCHANGED env

\* the kernel or the hardware changes under the running calls
EnvChange ==
    /\ \/ sys_power_state' \in ThreadStateFiles \ {sys_power_state}
          /\ UNCHANGED <<sys_power_disk, clock_boottime_alarm, swap_enough>>
       \/ sys_power_disk' \in ThreadModeFiles \ {sys_power_disk}
          /\ UNCHANGED <<sys_power_state, clock_boottime_alarm, swap_enough>>
       \/ clock_boottime_alarm' = ~clock_boottime_alarm
          /\ UNCHANGED <<sys_power_state, sys_power_disk, swap_enough>>
       \/ swap_enough' = ~swap_enough
          /\ UNCHANGED <<sys_power_state, sys_power_disk, clock_boottime_alarm>>
    /\ call' = [t \in Threads |->
                  IF call[t] = Idle THEN Idle ELSE [call[t] EXCEPT !.fresh = FALSE]]

ThreadStep(t) ==
    \/ StartCanSleep(t) \/ StepClock(t) \/ StepAccessState(t) \/ StepReadState(t)
    \/ StepAccessDisk(t) \/ StepReadDisk(t) \/ StepSwap(t) \/ ThreadReturn(t)

InitThreads ==
    /\ sys_power_state \in ThreadStateFiles
    /\ sys_power_disk \in ThreadModeFiles
    /\ clock_boottime_alarm \in BOOLEAN
    /\ swap_enough \in BOOLEAN
    /\ call = [t \in Threads |-> Idle]

NextThreads == (\E t \in Threads : ThreadStep(t)) \/ EnvChange

SpecThreads == InitThreads /\ [][NextThreads]_vars

\* the decision engine and the capability probe as functions of their arguments
NextDecide == CanSleepInternal \/ SleepStateSupported \/ SleepModeSupported \/ Return

SpecDecide == Init /\ [][NextDecide]_vars

(* ------------------------------ verdicts ------------------------------- *)

\* can_sleep has returned after loading its configuration
Queried == call.fn = "can_sleep" /\ call.parse = 0

\* can_sleep_internal has returned
Decided == call.fn = "can_sleep_internal"

KernelProbes == {AccessState, ReadState, AccessDisk, ReadDisk}

Oracles == {ClockSupported, EnoughSwap}

(* ------------------------------- claims -------------------------------- *)

\* C1: a can_sleep query of an operation whose allow flag is false in the
\* loaded configuration returns No (0) and consults neither kernel file nor
\* the wake-alarm oracle nor the swap oracle.
C1_DisallowedIsNoWithoutProbing ==
    (Queried /\ ~call.sleep_config.allow[call.operation])
        => (call.ret = 0 /\ Range(call.log) \cap (KernelProbes \cup Oracles) = {})

\* a disallowed operation was queried on a host where it is otherwise feasible
C1_Witness ==
    /\ Queried
    /\ ~call.sleep_config.allow[call.operation]
    /\ can_sleep_internal(call.sleep_config, call.operation, FALSE).ret > 0
    /\ call.ret = 0

\* the verdict of a leg of suspend-then-hibernate: decide(config, op, enforce_allow = false)
Leg(operation) == can_sleep_internal(call.sleep_config, operation, FALSE).ret

S2hQueried ==
    /\ Queried
    /\ call.operation = SLEEP_SUSPEND_THEN_HIBERNATE
    /\ call.sleep_config.allow[SLEEP_SUSPEND_THEN_HIBERNATE]

\* C2: an allowed suspend-then-hibernate query is Yes exactly when the wake
\* alarm is available and both the Suspend and the Hibernate leg, decided
\* without their allow flags, are Yes.
C2_S2hYesIffAlarmAndBothLegs ==
    S2hQueried =>
        (call.ret > 0 <=> (/\ clock_boottime_alarm
                           /\ Leg(SLEEP_SUSPEND) > 0
                           /\ Leg(SLEEP_HIBERNATE) > 0))

\* suspend-then-hibernate was found feasible
C2_Witness == S2hQueried /\ call.ret > 0 /\ Leg(SLEEP_HIBERNATE) > 0

\* the read or tokenization error (-EIO, -ENOMEM) that the state check, or
\* after a supported state the mode check, of an operation meets; 0 if none
ProbeFailure(operation) ==
    LET s == sleep_state_supported(call.sleep_config.states[operation])
        m == sleep_mode_supported(call.sleep_config.modes[operation])
    IN  IF s.ret \in {-EIO, -ENOMEM} THEN s.ret
        ELSE IF s.ret > 0 /\ m.ret \in {-EIO, -ENOMEM} THEN m.ret
        ELSE 0

\* C3: when the wake alarm is available, the Suspend leg is Yes and the
\* Hibernate leg fails to read or tokenize a kernel file, the
\* suspend-then-hibernate query returns that error, neither No nor Yes.
C3_HibernateLegErrorPropagates ==
    (/\ S2hQueried
     /\ clock_boottime_alarm
     /\ Leg(SLEEP_SUSPEND) > 0
     /\ ProbeFailure(SLEEP_HIBERNATE) < 0)
        => call.ret = ProbeFailure(SLEEP_HIBERNATE)

\* C4: an allowed primitive operation whose state or mode check fails to
\* read or tokenize the kernel file returns that error, not No.
C4_PrimitiveProbeErrorPropagates ==
    (/\ Queried
     /\ call.operation \in SLEEP_OPERATION_CONFIG
     /\ call.sleep_config.allow[call.operation]
     /\ ProbeFailure(call.operation) < 0)
        => call.ret = ProbeFailure(call.operation)

\* C5: the state check of an empty list returns -ENOMSG, the state check and
\* (for a non-empty list) the mode check of an unwritable file return the
\* errno of access(); in each case the decision for the primitive operation
\* is No (0).
C5_UnconfiguredOrNotWritableIsNo ==
    /\ (call.fn = "sleep_state_supported" /\ call.arg = <<>>) => call.ret = -ENOMSG
    /\ (call.fn = "sleep_state_supported" /\ call.arg # <<>> /\ sys_power_state.access < 0)
           => call.ret = -EACCES
    /\ (call.fn = "sleep_mode_supported" /\ call.arg # <<>> /\ sys_power_disk.access < 0)
           => call.ret = -EACCES
    /\ (Decided /\ call.operation \in SLEEP_OPERATION_CONFIG) =>
          LET states == call.sleep_config.states[call.operation]
              modes == call.sleep_config.modes[call.operation]
          IN  /\ states = <<>> =>
                    (sleep_state_supported(states).ret = -ENOMSG /\ call.ret = 0)
              /\ (states # <<>> /\ sys_power_state.access < 0) =>
                    (sleep_state_supported(states).ret = -EACCES /\ call.ret = 0)
              /\ (modes # <<>> /\ sys_power_disk.access < 0) =>
                    (sleep_mode_supported(modes).ret = -EACCES /\ call.ret = 0)

\* an operation with no state configured was decided on a host whose kernel
\* files are readable and whose swap suffices
C5_Witness ==
    /\ Decided
    /\ call.operation \in SLEEP_OPERATION_CONFIG
    /\ ~call.check_allowed
    /\ call.sleep_config.states[call.operation] = <<>>
    /\ sys_power_state.access = 0 /\ sys_power_state.read = 0 /\ ~sys_power_state.corrupt
    /\ sleep_mode_supported(call.sleep_config.modes[call.operation]).ret > 0
    /\ swap_enough
    /\ call.ret = 0

\* C6: with the wake alarm available and the Suspend leg Yes, a Hibernate
\* leg that returns -ENOSPC makes suspend-then-hibernate No (0), not an error.
C6_NoSwapMakesS2hNo ==
    (/\ S2hQueried
     /\ clock_boottime_alarm
     /\ Leg(SLEEP_SUSPEND) > 0
     /\ Leg(SLEEP_HIBERNATE) = -ENOSPC)
        => call.ret = 0

\* suspend-then-hibernate was queried where only swap is missing
C6_Witness ==
    /\ S2hQueried
    /\ clock_boottime_alarm
    /\ Leg(SLEEP_SUSPEND) > 0
    /\ Leg(SLEEP_HIBERNATE) = -ENOSPC
    /\ EnoughSwap \in Range(call.log)
    /\ call.ret = 0

\* C7: without a wake alarm a suspend-then-hibernate query is No (0),
\* whatever the configuration and the outcome of the two legs.
C7_NoAlarmMakesS2hNo ==
    (/\ Queried
     /\ call.operation = SLEEP_SUSPEND_THEN_HIBERNATE
     /\ ~clock_boottime_alarm)
        => call.ret = 0

\* an allowed suspend-then-hibernate whose legs are both Yes was queried
\* without a wake alarm
C7_Witness ==
    /\ S2hQueried
    /\ ~clock_boottime_alarm
    /\ Leg(SLEEP_SUSPEND) > 0
    /\ Leg(SLEEP_HIBERNATE) > 0
    /\ call.ret = 0

\* C8: the verdict of an allowed suspend-then-hibernate query is the one of
\* every configuration that differs from the loaded one only in
\* allow[Suspend] and allow[Hibernate].
C8_S2hIgnoresLegAllowFlags ==
    S2hQueried =>
        \A s \in BOOLEAN, h \in BOOLEAN :
            can_sleep_internal(
                [call.sleep_config EXCEPT !.allow[SLEEP_SUSPEND] = s,
                                          !.allow[SLEEP_HIBERNATE] = h],
                SLEEP_SUSPEND_THEN_HIBERNATE, TRUE).ret = call.ret

\* suspend-then-hibernate is Yes although Suspend and Hibernate are disallowed
C8_Witness ==
    /\ S2hQueried
    /\ ~call.sleep_config.allow[SLEEP_SUSPEND]
    /\ ~call.sleep_config.allow[SLEEP_HIBERNATE]
    /\ call.ret > 0

\* C9: an allowed primitive operation whose state and mode checks are both
\* Supported: Suspend is Yes and the swap oracle is not consulted; Hibernate
\* and HybridSleep are Yes with enough swap and -ENOSPC without. Suspend
\* never returns -ENOSPC.
C9_SwapOnlyForHibernateClass ==
    /\ (Queried /\ call.operation = SLEEP_SUSPEND) => call.ret # -ENOSPC
    /\ (/\ Queried
        /\ call.operation \in SLEEP_OPERATION_CONFIG
        /\ call.sleep_config.allow[call.operation]
        /\ sleep_state_supported(call.sleep_config.states[call.operation]).ret > 0
        /\ sleep_mode_supported(call.sleep_config.modes[call.operation]).ret > 0)
           => IF call.operation = SLEEP_SUSPEND
              THEN call.ret = 1 /\ EnoughSwap \notin Range(call.log)
              ELSE call.ret = (IF swap_enough THEN 1 ELSE -ENOSPC)

\* Suspend was found feasible on a host without enough swap
C9_Witness ==
    /\ Queried
    /\ call.operation = SLEEP_SUSPEND
    /\ ~swap_enough
    /\ call.ret = 1

\* C10: the mode check of an empty list returns Supported (1) and consults
\* nothing, whatever the state of /sys/power/disk; the state check of an
\* empty list returns -ENOMSG.
C10_EmptyModesSupportedUnread ==
    /\ (call.fn = "sleep_mode_supported" /\ call.arg = <<>>)
           => (call.ret = 1 /\ call.log = <<>>)
    /\ (call.fn = "sleep_state_supported" /\ call.arg = <<>>)
           => (call.ret = -ENOMSG /\ call.log = <<>>)
    /\ (Queried /\ call.operation = SLEEP_SUSPEND
            /\ call.sleep_config.modes[SLEEP_SUSPEND] = <<>>)
           => Range(call.log) \cap {AccessDisk, ReadDisk} = {}

\* the mode check of an empty list was called while /sys/power/disk is not writable
C10_Witness ==
    /\ call.fn = "sleep_mode_supported"
    /\ call.arg = <<>>
    /\ sys_power_disk.access < 0
    /\ call.ret = 1

\* the mode check has read the line of /sys/power/disk and compared its words
ModeCompared ==
    /\ call.fn = "sleep_mode_supported"
    /\ call.arg # <<>>
    /\ sys_power_disk.access = 0
    /\ sys_power_disk.read = 0

\* a kernel word matches a candidate: it is the candidate inside one "[" "]"
\* pair, or it is the candidate itself and not of the form "[" ... "]"
Matches(word, candidate) ==
    \/ word = <<"[">> \o candidate \o <<"]">>
    \/ word = candidate /\ ~(Len(word) >= 2 /\ Head(word) = "[" /\ word[Len(word)] = "]")

\* C11: the mode check is Supported (1) exactly when some word of the line
\* matches a candidate, where "[platform]" and "platform" match the candidate
\* "platform" and "[platform" and "platform]" do not.
C11_BracketsStrippedOnlyInPairs ==
    ModeCompared =>
        /\ call.ret > 0 <=>
              \E i \in 1..Len(sys_power_disk.words), j \in 1..Len(call.arg) :
                  Matches(sys_power_disk.words[i], call.arg[j])
        /\ (call.arg = <<W("platform"), W("shutdown")>> /\ ~sys_power_disk.corrupt) =>
              /\ sys_power_disk.words = <<Bracketed("platform")>> => call.ret = 1
              /\ sys_power_disk.words = <<W("platform")>> => call.ret = 1
              /\ sys_power_disk.words = <<<<"[", "platform">>>> => call.ret = 0
              /\ sys_power_disk.words = <<<<"platform", "]">>>> => call.ret = 0

\* a line whose first word has one bracket only and whose second is
\* "[platform]" was found to support "platform"
C11_Witness ==
    /\ ModeCompared
    /\ call.arg = <<W("platform"), W("shutdown")>>
    /\ sys_power_disk.words = <<<<"[", "platform">>, Bracketed("platform")>>
    /\ call.ret = 1

\* parse_sleep_config has returned a configuration
Loaded == call.fn = "parse_sleep_config" /\ call.r = 0

\* what a derived allow flag is: the administrator's setting if there is one,
\* else whether neither Suspend nor Hibernate is set to false
Derived(setting, conf) ==
    IF setting \in {0, 1} THEN setting = 1
    ELSE conf.AllowSuspend \in {-1, 1} /\ conf.AllowHibernation \in {-1, 1}

\* C12: the loaded allow flags are: Suspend and Hibernate allowed unless set
\* to false; HybridSleep and SuspendThenHibernate as the administrator set
\* them, and when unset allowed exactly when Suspend and Hibernate both are.
C12_AllowFlagsFromTristates ==
    Loaded =>
        /\ call.ret.allow[SLEEP_SUSPEND] = (call.conf.AllowSuspend \in {-1, 1})
        /\ call.ret.allow[SLEEP_HIBERNATE] = (call.conf.AllowHibernation \in {-1, 1})
        /\ call.ret.allow[SLEEP_HYBRID_SLEEP]
              = Derived(call.conf.AllowHybridSleep, call.conf)
        /\ call.ret.allow[SLEEP_SUSPEND_THEN_HIBERNATE]
              = Derived(call.conf.AllowSuspendThenHibernate, call.conf)

\* Hibernate is set to false and the two derived flags are unset: both are
\* loaded as not allowed
C12_Witness ==
    /\ Loaded
    /\ call.conf.AllowSuspend = -1
    /\ call.conf.AllowHibernation = 0
    /\ call.conf.AllowHybridSleep = -1
    /\ call.conf.AllowSuspendThenHibernate = -1
    /\ ~call.ret.allow[SLEEP_HYBRID_SLEEP]
    /\ ~call.ret.allow[SLEEP_SUSPEND_THEN_HIBERNATE]
    /\ call.ret.allow[SLEEP_SUSPEND]

\* C13: in every interleaving of the reads of concurrent can_sleep calls and
\* of changes of the environment, a call that ends with the environment as
\* it was when the call began returns what one can_sleep call alone returns
\* for the sleep.conf it parsed, whatever the other calls loaded, read and
\* returned; and no step of a call changes the kernel files or the oracles.
C13_CallsIndependent ==
    [][/\ \A t \in Threads :
            (call'[t] # Idle /\ call'[t].pc = "done" /\ call'[t].fresh) =>
                call'[t].ret = (can_sleep(call[t].conf, call[t].oom, call[t].operation).ret)'
       /\ (\E t \in Threads : call'[t] # Idle /\ call[t] # Idle /\ call'[t].pc # call[t].pc)
             => env' = env
       /\ (\E t \in Threads : (call'[t] = Idle) # (call[t] = Idle)) => env' = env]_vars

\* two calls of the same operation have ended with different verdicts: one
\* ran in an unchanged environment, the other saw it change
C13_Witness ==
    /\ call["t1"] # Idle /\ call["t2"] # Idle
    /\ call["t1"].pc = "done" /\ call["t2"].pc = "done"
    /\ call["t1"].operation = call["t2"].operation
    /\ call["t1"].conf = call["t2"].conf
    /\ call["t1"].fresh /\ ~call["t2"].fresh
    /\ call["t1"].ret > 0 /\ call["t2"].ret = 0

\* C14: once the configuration is loaded, can_sleep returns 0 or 1 for
\* Suspend and SuspendThenHibernate and 0, 1 or -ENOSPC for Hibernate and
\* HybridSleep, whatever the probes meet; the legs of SuspendThenHibernate
\* return 0, 1 or -ENOSPC, so the branch of can_s2h for other errors
\* (line 216) is never taken.
C14_VerdictsClosed ==
    Queried =>
        /\ call.operation \in {SLEEP_SUSPEND, SLEEP_SUSPEND_THEN_HIBERNATE}
              => call.ret \in {0, 1}
        /\ call.operation \in {SLEEP_HIBERNATE, SLEEP_HYBRID_SLEEP}
              => call.ret \in {0, 1, -ENOSPC}
        /\ call.operation = SLEEP_SUSPEND_THEN_HIBERNATE =>
              \A i \in 1..Len(operations) :
                  ~(Leg(operations[i]) \notin {0, -ENOSPC} /\ Leg(operations[i]) < 0)

\* suspend-then-hibernate was queried where the Hibernate leg fails to read
\* or tokenize a kernel file: the verdict is No
C14_Witness ==
    /\ S2hQueried
    /\ clock_boottime_alarm
    /\ Leg(SLEEP_SUSPEND) > 0
    /\ ProbeFailure(SLEEP_HIBERNATE) < 0
    /\ Leg(SLEEP_HIBERNATE) = 0
    /\ call.ret = 0

\* the place of a probe in the order of can_sleep_internal
Rank(probe) ==
    CASE probe = ClockSupported -> 0
      [] probe = AccessState -> 1
      [] probe = ReadState -> 2
      [] probe = AccessDisk -> 3
      [] probe = ReadDisk -> 4
      [] probe = EnoughSwap -> 5

\* the log of the check of one primitive operation is in order, reaches the
\* mode file only past a supported state and the swap oracle only past both
\* checks and not for Suspend
PrimitiveOrder(operation, log) ==
    LET s == sleep_state_supported(call.sleep_config.states[operation]).ret
        m == sleep_mode_supported(call.sleep_config.modes[operation]).ret
    IN  /\ \A i \in 1..Len(log), j \in 1..Len(log) : i < j => Rank(log[i]) < Rank(log[j])
        /\ ClockSupported \notin Range(log)
        /\ ReadState \in Range(log) => (AccessState \in Range(log) /\ sys_power_state.access = 0)
        /\ Range(log) \cap {AccessDisk, ReadDisk} # {} => (ReadState \in Range(log) /\ s > 0)
        /\ ReadDisk \in Range(log) => (AccessDisk \in Range(log) /\ sys_power_disk.access = 0)
        /\ EnoughSwap \in Range(log) => (s > 0 /\ m > 0 /\ operation # SLEEP_SUSPEND)

LegLog(operation) == can_sleep_internal(call.sleep_config, operation, FALSE).log

\* C15: a query consults nothing when the operation is not allowed; a
\* primitive query consults state file, mode file and swap oracle in this
\* order, each only past the earlier ones; suspend-then-hibernate consults
\* the wake alarm first, then the Suspend leg, and the Hibernate leg only
\* when the Suspend leg is Yes.
C15_ChecksInOrder ==
    Queried =>
        /\ ~call.sleep_config.allow[call.operation] => call.log = <<>>
        /\ call.operation \in SLEEP_OPERATION_CONFIG
              => PrimitiveOrder(call.operation, call.log)
        /\ (call.operation = SLEEP_SUSPEND_THEN_HIBERNATE /\ call.log # <<>>) =>
              /\ call.log[1] = ClockSupported
              /\ Len(call.log) > 1 => clock_boottime_alarm
              /\ \E k \in 1..Len(call.log) :
                    LET first == SubSeq(call.log, 2, k)
                        second == SubSeq(call.log, k + 1, Len(call.log))
                    IN  /\ PrimitiveOrder(SLEEP_SUSPEND, first)
                        /\ PrimitiveOrder(SLEEP_HIBERNATE, second)
                        /\ second # <<>> => (first = LegLog(SLEEP_SUSPEND) /\ Leg(SLEEP_SUSPEND) > 0)

\* suspend-then-hibernate was queried where Hibernate is feasible and
\* Suspend is not: nothing is consulted past the state file of the Suspend leg
C15_Witness ==
    /\ S2hQueried
    /\ clock_boottime_alarm
    /\ Leg(SLEEP_SUSPEND) = 0
    /\ Leg(SLEEP_HIBERNATE) > 0
    /\ call.log = <<ClockSupported, AccessState, ReadState>>
    /\ call.ret = 0

====
